---- MODULE Spec2Model ----
(***************************************************************************)
(* Model of copy_jam_documents.py: the slugify text transform and the      *)
(* one-shot run of main() against the wiki and the storage account.        *)
(* Text is a sequence of Unicode code points.                              *)
(***************************************************************************)
EXTENDS Integers, Sequences, FiniteSets, TLC

VARIABLES
    value,      \* slugify: the local `value` as it is rewritten line by line
    s_pc,       \* slugify: position in the function body
    s_in,       \* slugify: the argument of the first call
    s_first,    \* slugify: result of the first call (<<>> until it returns)
    s_round,    \* slugify: 1 = first call, 2 = call on the first call's result
    env,        \* main: the environment variables
    pc,         \* main: position in main()
    error,      \* main: the exception that ended the run ("none" while running)
    pages,      \* main: result of get_all_pages_by_label
    drive,      \* the storage account: sequence of entries
    items,      \* main: what read_google_drive returned
    drive_files,\* main: the filtered listing
    di,         \* main: index of the delete loop
    pi,         \* main: index of the page loop
    content,    \* main: PDF payload of the current page
    disk,       \* the local filesystem: path -> bytes on disk
    buf,        \* bytes held in the open file object's write buffer
    calls       \* log of the calls made to the libraries, in order

vars == <<value, s_pc, s_in, s_first, s_round, env, pc, error, pages, drive,
          items, drive_files, di, pi, content, disk, buf, calls>>

slugVars == <<value, s_pc, s_in, s_first, s_round>>
mainVars == <<env, pc, error, pages, drive, items, drive_files, di, pi,
              content, disk, buf, calls>>

----------------------------------------------------------------------------
(* Bounds *)

MaxLen == 4         \* longest slugify argument drawn from Alphabet
MaxFiles == 3       \* most entries on the storage account at the start
MaxPages == 2       \* most pages the wiki returns
MaxPayload == 2     \* longest PDF payload, in bytes
MaxBuffer == 2      \* largest write-buffer size of the file object, in bytes

----------------------------------------------------------------------------
(* Characters *)

HYPHEN == 45
UNDERSCORE == 95
SPACE == 32
EM_DASH == 8212
NBSP == 160
COMBINING_GRAVE == 768
COMBINING_ACUTE == 769

\* "a", "A", "1", "-", "_", " ", "!", e-acute, em dash
Alphabet == {97, 65, 49, HYPHEN, UNDERSCORE, SPACE, 33, 233, EM_DASH}

\* "  Cafe'--De'ja` Vu  " with e-acute 233, a-grave 224 and the em dash
CafeInput == <<32, 32, 67, 97, 102, 233, EM_DASH, 68, 233, 106, 224, 32, 86,
               117, 32, 32>>

\* "cafedeja-vu"
CafeSlug == <<99, 97, 102, 101, 100, 101, 106, 97, HYPHEN, 118, 117>>

\* "cafe-deja-vu"
CafeSpecSlug == <<99, 97, 102, 101, HYPHEN, 100, 101, 106, 97, HYPHEN, 118, 117>>

SeqsUpTo(S, n) == UNION {[1..k -> S] : k \in 0..n}

----------------------------------------------------------------------------
(* slugify *)

\* unicodedata.normalize("NFKD", c) for one character
Decompose(c) ==
    CASE c = 233 -> <<101, COMBINING_ACUTE>>
      [] c = 201 -> <<69, COMBINING_ACUTE>>
      [] c = 224 -> <<97, COMBINING_GRAVE>>
      [] c = 192 -> <<65, COMBINING_GRAVE>>
      [] c = NBSP -> <<SPACE>>
      [] OTHER -> <<c>>

RECURSIVE NFKD(_)
NFKD(s) == IF s = <<>> THEN <<>> ELSE Decompose(Head(s)) \o NFKD(Tail(s))

IsAscii(c) == c < 128

\* a plausible slip: .encode("ascii", "replace") style, a hyphen per dropped char
AsciiReplace(s) == [i \in 1..Len(s) |-> IF IsAscii(s[i]) THEN s[i] ELSE HYPHEN]

\* .encode("ascii", "ignore").decode("ascii")
AsciiIgnore(s) == SelectSeq(s, IsAscii)

\* str.lower() on ASCII text
LowerChar(c) == IF c \in 65..90 THEN c + 32 ELSE c

Lower(s) == [i \in 1..Len(s) |-> LowerChar(s[i])]

\* \w on ASCII text
IsWord(c) == c \in 48..57 \/ c \in 65..90 \/ c \in 97..122 \/ c = UNDERSCORE

\* \s on ASCII text
IsSpace(c) == c \in 9..13 \/ c \in 28..31 \/ c = SPACE

KeptChar(c) == IsWord(c) \/ IsSpace(c) \/ c = HYPHEN

\* re.sub(r"[^\w\s-]", "", s)
RemoveOther(s) == SelectSeq(s, KeptChar)

IsDashOrSpace(c) == c = HYPHEN \/ IsSpace(c)

\* re.sub(r"[-\s]+", "-", s)
RECURSIVE CollapseRuns(_)
CollapseRuns(s) ==
    IF s = <<>> THEN <<>>
    ELSE IF IsDashOrSpace(Head(s))
         THEN IF Len(s) > 1 /\ IsDashOrSpace(s[2])
              THEN CollapseRuns(Tail(s))
              ELSE <<HYPHEN>> \o CollapseRuns(Tail(s))
         ELSE <<Head(s)>> \o CollapseRuns(Tail(s))

IsStripped(c) == c = HYPHEN \/ c = UNDERSCORE

RECURSIVE LStrip(_)
LStrip(s) == IF s # <<>> /\ IsStripped(Head(s)) THEN LStrip(Tail(s)) ELSE s

RECURSIVE RStrip(_)
RStrip(s) ==
    IF s # <<>> /\ IsStripped(s[Len(s)])
    THEN RStrip(SubSeq(s, 1, Len(s) - 1)) ELSE s

\* a plausible slip: strip("-") instead of strip("-_")
RECURSIVE LStripDash(_)
LStripDash(s) == IF s # <<>> /\ Head(s) = HYPHEN THEN LStripDash(Tail(s)) ELSE s

RECURSIVE RStripDash(_)
RStripDash(s) ==
    IF s # <<>> /\ s[Len(s)] = HYPHEN
    THEN RStripDash(SubSeq(s, 1, Len(s) - 1)) ELSE s

StripOnlyDash(s) == RStripDash(LStripDash(s))

\* a plausible slip: removes one character from each end instead of all
StripOnce(s) ==
    LET l == IF s # <<>> /\ IsStripped(Head(s)) THEN Tail(s) ELSE s
    IN IF l # <<>> /\ IsStripped(l[Len(l)]) THEN SubSeq(l, 1, Len(l) - 1) ELSE l

\* .strip("-_")
Strip(s) == RStrip(LStrip(s))

\* the whole function, as main() calls it
slugify(v) == Strip(CollapseRuns(RemoveOther(Lower(AsciiIgnore(NFKD(v))))))

\* line 72-74
SlugNormalize ==
    /\ s_pc = "normalize"
    /\ value' = AsciiIgnore(NFKD(value))
    /\ s_pc' = "remove"
    /\ UNCHANGED <<s_in, s_first, s_round>>
    /\ UNCHANGED mainVars

\* line 75
SlugRemove ==
    /\ s_pc = "remove"
    /\ value' = RemoveOther(Lower(value))
    /\ s_pc' = "collapse"
    /\ UNCHANGED <<s_in, s_first, s_round>>
    /\ UNCHANGED mainVars

\* line 77
SlugReturn ==
    /\ s_pc = "collapse"
    /\ value' = Strip(CollapseRuns(value))
    /\ s_pc' = "returned"
    /\ s_first' = IF s_round = 1 THEN value' ELSE s_first
    /\ UNCHANGED <<s_in, s_round>>
    /\ UNCHANGED mainVars

\* a second call, on the result of the first
SlugAgain ==
    /\ s_pc = "returned"
    /\ s_round = 1
    /\ s_round' = 2
    /\ s_pc' = "normalize"
    /\ UNCHANGED <<value, s_in, s_first>>
    /\ UNCHANGED mainVars

----------------------------------------------------------------------------
(* The storage account, the wiki and the environment *)

NONE == "None"
FOLDER_MIME == "application/vnd.google-apps.folder"
PDF_MIME == "application/pdf"
TARGET == "target"      \* the folder named by directory_id
ELSEWHERE == "other"      \* any other place the service account can see
DEFAULT_LABEL == "jam"
PageSize == 50          \* files().list(pageSize=50)
PageLimit == 50         \* get_all_pages_by_label(limit=50)

Min(a, b) == IF a < b THEN a ELSE b

EnvValues == {NONE, "", "set"}

\* An entry of the storage account.  `parent` is where the entry lives; the
\* listing does not return it, the model carries it to tell entries apart.
Entry(i, m, p) == [id |-> i, mimeType |-> m, parent |-> p]

Drives ==
    UNION {{[i \in 1..n |-> Entry(i, m[i], p[i])] :
              m \in [1..n -> {FOLDER_MIME, PDF_MIME}],
              p \in [1..n -> {TARGET, ELSEWHERE}]} : n \in 0..MaxFiles}

\* "A b", "a-b" (same slug as the first), "!" (empty slug)
Titles == {<<65, 32, 98>>, <<97, 45, 98>>, <<33>>}

PageLists ==
    UNION {{[i \in 1..n |-> [id |-> i, title |-> t[i]]] : t \in [1..n -> Titles]} :
              n \in 0..Min(MaxPages, PageLimit)}

\* the bytes get_page_as_pdf returns for a page: n bytes that name the page
Payload(page, n) == [k \in 1..n |-> page.id]

Call(o, a, r) == [op |-> o, arg |-> a, ok |-> r]

\* os.getenv(name, default)
getenv(name, default) == IF env[name] = NONE THEN default ELSE env[name]

\* a plausible slip: `is not None` instead of truthiness
NotNone(v) == v # NONE

\* truth value of a str-or-None, as `assert` takes it
Truthy(v) == v # NONE /\ v # ""

\* a plausible slip: the exception is caught and the run goes on
Swallow(next) == next

\* an exception nobody catches ends the run, whatever came next
Raise(next) == "aborted"

\* a plausible slip: no filter
AnyEntry(x) == TRUE

\* the lambda of line 125
IsNotFolder(x) == x.mimeType # FOLDER_MIME

NoneValue == [kind |-> NONE, list |-> <<>>]
ListValue(l) == [kind |-> "list", list |-> l]

\* a plausible slip: the empty list is returned as it is
read_google_drive_empty_list(files) == ListValue(files)

\* lines 26-31, on the files the list call answered
read_google_drive(files) == IF files = <<>> THEN NoneValue ELSE ListValue(files)

\* the page loop: the next page, or the end of main
AfterPage(j) == IF j <= Len(pages) THEN "render" ELSE "done"

\* a plausible slip: the purge is skipped when there is nothing to upload
AfterListingSkip(files, i) ==
    IF pages = <<>> THEN "done"
    ELSE IF i <= Len(files) THEN "delete" ELSE AfterPage(1)

\* the delete loop: the next file, or on to the page loop
AfterListing(files, i) == IF i <= Len(files) THEN "delete" ELSE AfterPage(1)

RemoveId(d, i) == SelectSeq(d, LAMBDA e : e.id # i)

\* lines 85-97
CheckConfig ==
    /\ pc = "start"
    /\ LET jira_domain == getenv("domain", NONE)
           jira_token == getenv("token", NONE)
           jira_user == getenv("user", NONE)
           confluence_label == getenv("label", DEFAULT_LABEL)
       IN IF /\ Truthy(jira_domain)
             /\ Truthy(jira_token)
             /\ Truthy(jira_user)
             /\ Truthy(confluence_label)
          THEN pc' = "credentials" /\ error' = error
          ELSE pc' = Raise("credentials") /\ error' = "AssertionError"
    /\ UNCHANGED <<env, pages, drive, items, drive_files, di, pi, content, disk,
                   buf, calls>>
    /\ UNCHANGED slugVars

\* lines 106-115: the credentials file is read, the wiki client is built
LoadCredentials ==
    /\ pc = "credentials"
    /\ \E ok \in BOOLEAN :
        /\ calls' = Append(calls, Call("credentials", "credentials.json", ok))
        /\ IF ok THEN pc' = "fetch" /\ error' = error
                 ELSE pc' = Raise("fetch") /\ error' = "FileNotFoundError"
    /\ UNCHANGED <<env, pages, drive, items, drive_files, di, pi, content, disk, buf>>
    /\ UNCHANGED slugVars

\* lines 117-121
FetchPages ==
    /\ pc = "fetch"
    /\ \E ok \in BOOLEAN :
        /\ calls' = Append(calls, Call("get_all_pages_by_label",
                                       getenv("label", DEFAULT_LABEL), ok))
        /\ IF ok THEN /\ pages' \in PageLists
                      /\ pc' = "list"
                      /\ error' = error
                 ELSE /\ pages' = pages
                      /\ pc' = Raise("list")
                      /\ error' = "ApiError"
    /\ UNCHANGED <<env, drive, items, drive_files, di, pi, content, disk, buf>>
    /\ UNCHANGED slugVars

\* lines 123-128 with read_google_drive, lines 19-31
ListDrive ==
    /\ pc = "list"
    /\ \E ok \in BOOLEAN :
        /\ calls' = Append(calls, Call("list", PageSize, ok))
        /\ IF ok
           THEN LET result == read_google_drive(SubSeq(drive, 1, Min(Len(drive), PageSize)))
                IN /\ items' = result
                   /\ IF result.kind = NONE
                      THEN \* filter(..., None)
                           /\ drive_files' = drive_files
                           /\ pc' = Raise(AfterListing(<<>>, 1))
                           /\ error' = "TypeError"
                      ELSE /\ drive_files' = SelectSeq(result.list, IsNotFolder)
                           /\ pc' = AfterListing(drive_files', 1)
                           /\ error' = error
           ELSE /\ items' = items
                /\ drive_files' = drive_files
                /\ pc' = Raise(AfterListing(<<>>, 1))
                /\ error' = "HttpError"
    /\ di' = 1
    /\ UNCHANGED <<env, pages, drive, pi, content, disk, buf>>
    /\ UNCHANGED slugVars

\* lines 129-130 with delete_from_google_drive, lines 53-60
DeleteFile ==
    /\ pc = "delete"
    /\ di <= Len(drive_files)
    /\ LET drive_file == drive_files[di]
       IN \E ok \in BOOLEAN :
           /\ calls' = Append(calls, Call("delete", drive_file["id"], ok))
           /\ IF ok THEN /\ drive' = RemoveId(drive, drive_file["id"])
                         /\ error' = error
                         /\ pc' = AfterListing(drive_files, di + 1)
                    ELSE /\ drive' = drive
                         /\ error' = "HttpError"
                         /\ pc' = Raise(AfterListing(drive_files, di + 1))
    /\ di' = di + 1
    /\ UNCHANGED <<env, pages, items, drive_files, pi, content, disk, buf>>
    /\ UNCHANGED slugVars

\* line 133
RenderPage ==
    /\ pc = "render"
    /\ pi <= Len(pages)
    /\ \E ok \in BOOLEAN :
        /\ calls' = Append(calls, Call("get_page_as_pdf", pages[pi]["id"], ok))
        /\ IF ok THEN /\ \E n \in 1..MaxPayload : content' = Payload(pages[pi], n)
                      /\ pc' = "write"
                      /\ error' = error
                 ELSE /\ content' = content
                      /\ pc' = Raise("write")
                      /\ error' = "ApiError"
    /\ UNCHANGED <<env, pages, drive, items, drive_files, di, pi, disk, buf>>
    /\ UNCHANGED slugVars

OtherFiles(path) == {f \in disk : f.path # path}

\* lines 134-137: open(..., "wb") empties the file; write() hands the bytes
\* to a buffered writer, which keeps what fits its buffer and writes through
\* what does not
WriteFile ==
    /\ pc = "write"
    /\ LET title == slugify(pages[pi]["title"])
       IN \E bufsize \in 1..MaxBuffer :
           IF Len(content) <= bufsize
           THEN /\ buf' = content
                /\ disk' = OtherFiles(title) \cup {[path |-> title, data |-> <<>>]}
           ELSE /\ buf' = <<>>
                /\ disk' = OtherFiles(title) \cup {[path |-> title, data |-> content]}
    /\ pc' = "upload"
    /\ UNCHANGED <<env, error, pages, drive, items, drive_files, di, pi, content, calls>>
    /\ UNCHANGED slugVars

OnDisk(path) == (CHOOSE f \in disk : f.path = path).data

\* line 138 with upload_google_drive, lines 34-50, then the end of the
\* `with` block, which flushes and closes the file on either way out
UploadFile ==
    /\ pc = "upload"
    /\ LET title == slugify(pages[pi]["title"])
           read == OnDisk(title)
           newId == MaxFiles + pi
       IN /\ \E ok \in BOOLEAN :
               /\ calls' = Append(calls,
                      Call("upload", [path |-> title, page |-> pages[pi]["id"],
                                      payload |-> content, read |-> read,
                                      unflushed |-> buf, id |-> newId], ok))
               /\ IF ok THEN /\ drive' = Append(drive, Entry(newId, PDF_MIME, TARGET))
                             /\ pc' = AfterPage(pi + 1)
                             /\ error' = error
                        ELSE /\ drive' = drive
                             /\ pc' = Raise(AfterPage(pi + 1))
                             /\ error' = "HttpError"
          /\ disk' = OtherFiles(title) \cup {[path |-> title, data |-> read \o buf]}
    /\ buf' = <<>>
    /\ pi' = pi + 1
    /\ UNCHANGED <<env, pages, items, drive_files, di, content>>
    /\ UNCHANGED slugVars

SlugIdle ==
    /\ value = <<>>
    /\ s_pc = "idle"
    /\ s_in = <<>>
    /\ s_first = <<>>
    /\ s_round = 1

Init ==
    /\ env \in [{"domain", "token", "user", "label"} -> EnvValues]
    /\ pc = "start"
    /\ error = "none"
    /\ pages = <<>>
    /\ drive \in Drives
    /\ items = NoneValue
    /\ drive_files = <<>>
    /\ di = 1
    /\ pi = 1
    /\ content = <<>>
    /\ disk = {}
    /\ buf = <<>>
    /\ calls = <<>>
    /\ SlugIdle

Next ==
    \/ CheckConfig
    \/ LoadCredentials
    \/ FetchPages
    \/ ListDrive
    \/ DeleteFile
    \/ RenderPage
    \/ WriteFile
    \/ UploadFile

Spec == Init /\ [][Next]_vars

MainIdle ==
    /\ env = [n \in {"domain", "token", "user", "label"} |-> NONE]
    /\ pc = "idle"
    /\ error = "none"
    /\ pages = <<>>
    /\ drive = <<>>
    /\ items = NoneValue
    /\ drive_files = <<>>
    /\ di = 1
    /\ pi = 1
    /\ content = <<>>
    /\ disk = {}
    /\ buf = <<>>
    /\ calls = <<>>

SlugInit ==
    /\ value \in SeqsUpTo(Alphabet, MaxLen) \cup {CafeInput}
    /\ s_in = value
    /\ s_pc = "normalize"
    /\ s_first = <<>>
    /\ s_round = 1
    /\ MainIdle

SlugNext == SlugNormalize \/ SlugRemove \/ SlugReturn \/ SlugAgain

SlugSpec == SlugInit /\ [][SlugNext]_vars

----------------------------------------------------------------------------
(* Properties of the run *)

CallIndexes(o) == {i \in DOMAIN calls : calls[i].op = o}

Succeeded(o) == {i \in CallIndexes(o) : calls[i].ok}

Listed == {items.list[i] : i \in DOMAIN items.list}

ListedEntry(fileId) == CHOOSE e \in Listed : e.id = fileId

OnDrive == {drive[i].id : i \in DOMAIN drive}

\* C1: every entry on which delete is invoked is located in the target
\* folder; an entry that is not in the target folder is never deleted.
C1_DeletesOnlyInTargetFolder ==
    \A i \in CallIndexes("delete") : ListedEntry(calls[i].arg).parent = TARGET

DeleteLoopDone ==
    /\ Succeeded("list") # {}
    /\ items.kind = "list"
    /\ di > Len(drive_files)
    /\ CallIndexes("delete") = Succeeded("delete")

\* C2: delete is never invoked on a folder entry of the listing, and once
\* the delete loop is through without a failed delete, delete has been
\* invoked on every listed entry that is not a folder.
C2_FoldersSparedFilesDeleted ==
    /\ \A i \in CallIndexes("delete") :
          ListedEntry(calls[i].arg).mimeType # FOLDER_MIME
    /\ DeleteLoopDone =>
          \A e \in Listed :
              e.mimeType # FOLDER_MIME =>
                  \E i \in CallIndexes("delete") : calls[i].arg = e.id

C2_Witness ==
    /\ DeleteLoopDone
    /\ \E e \in Listed : e.mimeType = FOLDER_MIME
    /\ \E e \in Listed : e.mimeType # FOLDER_MIME
    /\ CallIndexes("delete") # {}

FetchedZeroPages == Succeeded("get_all_pages_by_label") # {} /\ pages = <<>>

\* C3: when the fetch by label returned zero pages there is never an upload
\* call, and the run that ends has deleted every listed non-folder entry.
C3_ZeroPagesStillPurges ==
    FetchedZeroPages =>
        /\ CallIndexes("upload") = {}
        /\ pc = "done" =>
              \A e \in Listed :
                  e.mimeType # FOLDER_MIME =>
                      /\ \E i \in Succeeded("delete") : calls[i].arg = e.id
                      /\ e.id \notin OnDrive

C3_Witness ==
    /\ FetchedZeroPages
    /\ pc = "done"
    /\ Succeeded("delete") # {}

Missing(v) == v \in {NONE, ""}

\* the label falls back to its default when the variable is not set
SettingMissing ==
    \/ Missing(env["domain"])
    \/ Missing(env["token"])
    \/ Missing(env["user"])
    \/ env["label"] = ""

C5_AbortOnFirstError ==
    /\ \A i \in DOMAIN calls :
          ~calls[i].ok => i = Len(calls) /\ pc = "aborted" /\ error # "none"
    /\ \A i \in Succeeded("delete") : calls[i].arg \notin OnDrive
    /\ \A i \in Succeeded("upload") : calls[i].arg.id \in OnDrive

C5_Witness ==
    /\ pc = "aborted"
    /\ calls # <<>>
    /\ calls[Len(calls)].op = "upload"
    /\ ~calls[Len(calls)].ok
    /\ Succeeded("delete") # {}
    /\ Succeeded("upload") # {}

\* C9: when upload is called for a page the file object holds no unwritten
\* bytes, and the bytes the upload reads from the path are the payload
\* rendered for that page.
C9_UploadReadsWholePayload ==
    \A i \in CallIndexes("upload") :
        /\ calls[i].arg.unflushed = <<>>
        /\ calls[i].arg.read = calls[i].arg.payload

ListedNothing == Succeeded("list") # {} /\ items.list = <<>>

\* C10: when the listing has no entries, read_google_drive returns None, the
\* run is aborted by the TypeError of the filter step, no delete, render or
\* upload call is made and the storage account stays empty.
C10_EmptyListingAborts ==
    ListedNothing =>
        /\ items.kind = NONE
        /\ pc = "aborted"
        /\ error = "TypeError"
        /\ CallIndexes("delete") = {}
        /\ CallIndexes("get_page_as_pdf") = {}
        /\ CallIndexes("upload") = {}
        /\ drive = <<>>

C10_Witness ==
    /\ ListedNothing
    /\ pc = "aborted"
    /\ Len(pages) >= 1

----------------------------------------------------------------------------
(* Properties of slugify *)

IsLowerOrDigit(c) == c \in 97..122 \/ c \in 48..57

NoEdgeDashOrUnderscore(s) ==
    s # <<>> => /\ s[1] \notin {HYPHEN, UNDERSCORE}
                /\ s[Len(s)] \notin {HYPHEN, UNDERSCORE}

NoDoubleHyphen(s) ==
    \A i \in 1..(Len(s) - 1) : ~(s[i] = HYPHEN /\ s[i + 1] = HYPHEN)

\* s is empty or matches ^[a-z0-9]+(-[a-z0-9]+)*$
MatchesSlugPattern(s) ==
    /\ \A i \in DOMAIN s : IsLowerOrDigit(s[i]) \/ s[i] = HYPHEN
    /\ NoDoubleHyphen(s)
    /\ s # <<>> => s[1] # HYPHEN /\ s[Len(s)] # HYPHEN

\* s is empty or matches ^[a-z0-9_]+(-[a-z0-9_]+)*$
MatchesWordPattern(s) ==
    /\ \A i \in DOMAIN s : IsLowerOrDigit(s[i]) \/ s[i] = UNDERSCORE \/ s[i] = HYPHEN
    /\ NoDoubleHyphen(s)
    /\ s # <<>> => s[1] # HYPHEN /\ s[Len(s)] # HYPHEN

\* C6, as stated: the result is empty or matches ^[a-z0-9]+(-[a-z0-9]+)*$
\* and has no hyphen or underscore at either end.
C6_OutputMatchesSlugPattern ==
    s_pc = "returned" => MatchesSlugPattern(value) /\ NoEdgeDashOrUnderscore(value)

\* C6, amended: the result is empty or matches ^[a-z0-9_]+(-[a-z0-9_]+)*$
\* (underscores inside the result are kept) and has no hyphen or underscore
\* at either end.
C6_OutputMatchesWordPattern ==
    s_pc = "returned" => MatchesWordPattern(value) /\ NoEdgeDashOrUnderscore(value)

C6_Witness ==
    /\ s_pc = "returned"
    /\ s_round = 1
    /\ \E i \in DOMAIN value : value[i] = UNDERSCORE
    /\ \E i \in DOMAIN s_in : s_in[i] = UNDERSCORE /\ (i = 1 \/ i = Len(s_in))

\* C7, as stated: the input "  Cafe'--De'ja` Vu  " yields "cafe-deja-vu".
C7_CafeYieldsSpecSlug ==
    (s_in = CafeInput /\ s_pc = "returned" /\ s_round = 1) => value = CafeSpecSlug

\* C7, amended: the input "  Cafe'--De'ja` Vu  " yields "cafedeja-vu": the
\* accented letters become their base letters and the em dash is dropped
\* without a separator.
C7_CafeYieldsJoinedSlug ==
    (s_in = CafeInput /\ s_pc = "returned" /\ s_round = 1) => value = CafeSlug

C7_Witness ==
    /\ s_in = CafeInput
    /\ s_pc = "returned"
    /\ s_round = 1
    /\ Len(value) = Len(CafeSlug)

\* C8: slugify applied to its own result returns that result.
C8_Idempotent ==
    (s_pc = "returned" /\ s_round = 2) => value = s_first

C8_Witness ==
    /\ s_pc = "returned"
    /\ s_round = 2
    /\ s_first # <<>>
    /\ s_first # s_in

====
